---------------------------- MODULE Spec2Model ----------------------------
(***************************************************************************)
(* GrapeOS: the VGA text console and the event dispatcher of zkernel, the  *)
(* scripted kernel_main run, and the framebuffer fill of kernel/_start.    *)
(*                                                                         *)
(* Characters are their Unicode code points, strings are sequences of     *)
(* code points, buffer cells are 16-bit values, pixels 32-bit values.      *)
(***************************************************************************)
EXTENDS Integers, Sequences, FiniteSets, TLC

VARIABLES
    console,         \* VgaConsole: [buffer, row, col] (+ the probes nl_calls,
                     \* scrolls, idx_lo, idx_hi)
    SYSTEM_RUNNING,  \* static SYSTEM_RUNNING: AtomicBool
    op,              \* history: the last operation and the cursor it started from
    steps,           \* history: number of operations applied so far
    pc,              \* kernel_main: position in the script
    timer_i,         \* kernel_main: the loop variable _i of `for _i in 0..10`
    spin,            \* kernel_main: the loop variable of the delay loop
    dispatched,      \* history: the event kinds dispatched by kernel_main, in order
    halt_entries,    \* history: how many times kernel_main entered its halt loop
    flag_changes,    \* history: how many times SYSTEM_RUNNING changed value in kernel_main
    boot_info,       \* kernel/_start: the BootInfo it is handed
    fb_mem,          \* kernel/_start: physical memory, 32-bit cells by byte address
    fb_pc,           \* kernel/_start: position
    fb_i,            \* kernel/_start: the loop variable i of `for i in 0..fb.len()`
    fb_written       \* history: the addresses _start has written

vars == <<console, SYSTEM_RUNNING, op, steps, pc, timer_i, spin, dispatched,
          halt_entries, flag_changes, boot_info, fb_mem, fb_pc, fb_i,
          fb_written>>

\* the variables of kernel_main, of kernel/_start, and of zkernel as a whole
MainVars == <<pc, timer_i, spin, dispatched, halt_entries, flag_changes>>
FbVars == <<boot_info, fb_mem, fb_pc, fb_i, fb_written>>
ZkernelVars == <<console, SYSTEM_RUNNING, op, steps, MainVars>>

-----------------------------------------------------------------------------
(* Bounds of the model *)

\* number of console/dispatcher operations applied from VgaConsole::new()
MaxSteps == 2

\* iterations of the delay loop of kernel_main that the model runs; the
\* program runs 5000000 of them, each one `core::hint::spin_loop()`
DelaySpins == 8

\* framebuffer widths and heights run over 0 .. MaxDim, strides over
\* 0 .. MaxDim + 1
MaxDim == 3

\* number of 32-bit cells of the physical memory of the framebuffer model
FbMemCells == 12

-----------------------------------------------------------------------------
(* Program constants *)

\* columns of the text grid: `for x in 0..80`, `y * 80 + x`, `new_col >= 80`
Cols == 80
\* rows of the text grid: `new_row >= 25`, `for y in 1..25`
Rows == 25
\* the row the cursor is pinned to after a scroll: `*self.row.get() = 24`
LastRow == 24
\* 0x0720: space, gray on black
BlankCell == 1824
\* 0x0700: the attribute or-ed onto every character
Attr == 1792
\* iterations of the timer loop of kernel_main: `for _i in 0..10`
TimerEvents == 10

\* COLOR_BLUE: u32 = 0x00FF0000
COLOR_BLUE == 16711680

\* character codes
LF == 10
CR == 13

-----------------------------------------------------------------------------
(* Helpers: `c as u16`, the bitwise or, and the `for` loop *)

\* `c as u16`: the low 16 bits of the code point
AsU16(c) == c % 65536

\* a | b, bit by bit from the low end (x | 0 = x)
RECURSIVE BitOr(_, _)
BitOr(a, b) ==
    IF a = 0 THEN b
    ELSE IF b = 0 THEN a
    ELSE (IF (a % 2 = 1) \/ (b % 2 = 1) THEN 1 ELSE 0)
         + 2 * BitOr(a \div 2, b \div 2)

\* a | b on u16, the low and the high byte apart
BitOr16(a, b) ==
    BitOr(a % 256, b % 256) + 256 * BitOr(a \div 256, b \div 256)

\* F(v), with v evaluated before F is entered: the value of one statement
\* is complete before the next statement runs
Then(v, F(_)) == CHOOSE r \in { F(a) : a \in {v} } : TRUE

\* `for i in lo..hi { acc = Body(acc, i) }`: the iterations lo, lo+1, ..,
\* hi-1 in this order.  A range of several iterations is halved and the
\* first half is run to its end before the second starts, which keeps the
\* evaluation shallow; one iteration is the body applied to the value the
\* iterations before it left.
RECURSIVE For(_, _, _, _)
For(Body(_, _), acc, lo, hi) ==
    IF lo >= hi THEN acc
    ELSE IF hi - lo = 1
         THEN LET Step(a) == Body(a, lo)
              IN  Then(acc, Step)
         ELSE LET mid == (lo + hi) \div 2
                  SecondHalf(a) == For(Body, a, mid, hi)
              IN  Then(For(Body, acc, lo, mid), SecondHalf)

Rep(c, n) == [k \in 1 .. n |-> c]

-----------------------------------------------------------------------------
(* The VGA text memory behind `buffer: *mut u16`: 80 * 25 cells of 16     *)
(* bits, kept line by line; cell i of the pointer arithmetic              *)
(* `buffer.add(i)` is column i % 80 of line i \div 80.                     *)

\* `*self.buffer.add(i)`
Load(buf, i) == buf[i \div Cols][i % Cols]

\* `*self.buffer.add(i) = v`
Store(buf, i, v) == [buf EXCEPT ![i \div Cols][i % Cols] = v]

\* a memory image with value f(i) in cell i
Memory(f(_)) ==
    [y \in 0 .. (Rows - 1) |-> [x \in 0 .. (Cols - 1) |-> f(y * Cols + x)]]

-----------------------------------------------------------------------------
(* VgaConsole *)

\* VgaConsole::new(): the cursor at (0,0); the buffer is the VGA memory at
\* 0xB8000, which new() does not touch: it holds whatever the firmware left.
VgaConsole_new(mem) ==
    [buffer |-> mem, row |-> 0, col |-> 0,
     nl_calls |-> 0, scrolls |-> 0, idx_lo |-> Cols * Rows, idx_hi |-> -1]

\* probe: `self.buffer.add(i)` is dereferenced; idx_lo and idx_hi are the
\* least and the greatest index dereferenced by the operation under way
Access(con, i) ==
    [con EXCEPT !.idx_lo = IF i < @ THEN i ELSE @,
                !.idx_hi = IF i > @ THEN i ELSE @]

\* inner loop of the scroll, for one y:
\*   for x in 0..80 { buffer[(y - 1) * 80 + x] = buffer[y * 80 + x] }
\* Cell y * 80 + x is column x of line y, cell (y - 1) * 80 + x column x of
\* line y - 1: the loop reads line y and writes line y - 1 only, so its 80
\* assignments are one assignment of the line.
ScrollRow(buf, y) ==
    [buf EXCEPT ![y - 1] = [x \in 0 .. (Cols - 1) |-> buf[y][x]]]

\* probe: the indices iteration y of the scroll dereferences, y * 80 + x
\* (read) and (y - 1) * 80 + x (written) for x in 0..80: the least is the
\* one written at x = 0, the greatest the one read at x = 79
ScrollRowAccess(con, y) ==
    Access(Access(con, (y - 1) * Cols + 0), y * Cols + (Cols - 1))

\* probe: the indices of `for y in 1..25`
ScrollRowsAccess(con) == For(ScrollRowAccess, con, 1, Rows)

\* mutant: the scroll starts at line 2 (`for y in 2..25`)
ScrollRows_from2(buf) == For(ScrollRow, buf, 2, Rows)

\* outer loop of the scroll: for y in 1..25, in this order
ScrollRows(buf) == For(ScrollRow, buf, 1, Rows)

\* for x in 0..80 { buffer[24 * 80 + x] = 0x0720 }
ClearLastLine(buf) ==
    LET Body(b, x) == Store(b, LastRow * Cols + x, BlankCell)
    IN  For(Body, buf, 0, Cols)

\* probe: the indices 24 * 80 + x of `for x in 0..80`, from x = 0 to x = 79
ClearLastLineAccess(con) ==
    Access(Access(con, LastRow * Cols + 0), LastRow * Cols + (Cols - 1))

\* mutant: after the scroll the row is set to 25 (`*self.row.get() = 25`)
newline_pin25(con) ==
    LET row     == con.row
        c1      == [con EXCEPT !.col = 0, !.nl_calls = @ + 1]
        new_row == row + 1
    IN  IF new_row >= Rows
        THEN [ClearLastLineAccess(ScrollRowsAccess(c1))
                EXCEPT !.buffer = ClearLastLine(ScrollRows(con.buffer)),
                       !.scrolls = @ + 1,
                       !.row = Rows]
        ELSE [c1 EXCEPT !.row = new_row]

\* mutant: at the bottom the cursor goes back to row 0, and nothing scrolls
newline_wraparound(con) ==
    LET row     == con.row
        c1      == [con EXCEPT !.col = 0, !.nl_calls = @ + 1]
        new_row == row + 1
    IN  IF new_row >= Rows
        THEN [c1 EXCEPT !.row = 0]
        ELSE [c1 EXCEPT !.row = new_row]

\* mutant: the row is not pinned to the last line, and nothing scrolls
newline_unpinned(con) ==
    [con EXCEPT !.col = 0, !.nl_calls = @ + 1, !.row = con.row + 1]

\* VgaConsole::newline
newline(con) ==
    LET row     == con.row
        c1      == [con EXCEPT !.col = 0, !.nl_calls = @ + 1]
        new_row == row + 1
    IN  IF new_row >= Rows
        THEN [ClearLastLineAccess(ScrollRowsAccess(c1))
                EXCEPT !.buffer = ClearLastLine(ScrollRows(con.buffer)),
                       !.scrolls = @ + 1,
                       !.row = LastRow]
        ELSE [c1 EXCEPT !.row = new_row]

\* mutant: the last line is left out (`for i in 0..(80 * 24)`)
clear_short(con) ==
    [Access(Access(con, 0), Cols * (Rows - 1) - 1)
         EXCEPT !.buffer = [y \in DOMAIN con.buffer |->
                              [x \in DOMAIN con.buffer[y] |->
                                 IF y * Cols + x < Cols * (Rows - 1)
                                 THEN BlankCell
                                 ELSE con.buffer[y][x]]],
                !.row = 0,
                !.col = 0]

\* TextDisplay::clear: for i in 0..(80 * 25) { buffer[i] = 0x0720 }, then
\* the cursor to (0,0).  Every iteration stores the same constant in its
\* own cell; the indices run from 0 to 80 * 25 - 1.
clear(con) ==
    [Access(Access(con, 0), Cols * Rows - 1)
         EXCEPT !.buffer = [y \in DOMAIN con.buffer |->
                              [x \in DOMAIN con.buffer[y] |->
                                 IF y * Cols + x < Cols * Rows
                                 THEN BlankCell
                                 ELSE con.buffer[y][x]]],
                !.row = 0,
                !.col = 0]

\* mutant: the line wraps one character late (`new_col > 80`)
write_char_latewrap(con, c) ==
    LET row == con.row
        col == con.col
    IN  IF c = LF THEN newline(con)
        ELSE IF c = CR THEN [con EXCEPT !.col = 0]
        ELSE LET char_with_attr == BitOr16(Attr, AsU16(c))
                 c1      == [Access(con, row * Cols + col) EXCEPT !.buffer =
                                Store(@, row * Cols + col, char_with_attr)]
                 new_col == col + 1
             IN  IF new_col > Cols THEN newline(c1)
                 ELSE [c1 EXCEPT !.col = new_col]

\* mutant: '\r' goes to the next row as '\n' does
write_char_cr_newline(con, c) ==
    LET row == con.row
        col == con.col
    IN  IF c = LF \/ c = CR THEN newline(con)
        ELSE LET char_with_attr == BitOr16(Attr, AsU16(c))
                 c1      == [Access(con, row * Cols + col) EXCEPT !.buffer =
                                Store(@, row * Cols + col, char_with_attr)]
                 new_col == col + 1
             IN  IF new_col >= Cols THEN newline(c1)
                 ELSE [c1 EXCEPT !.col = new_col]

\* TextDisplay::write_char
write_char(con, c) ==
    LET row == con.row
        col == con.col
    IN  IF c = LF THEN newline(con)
        ELSE IF c = CR THEN [con EXCEPT !.col = 0]
        ELSE LET char_with_attr == BitOr16(Attr, AsU16(c))
                 c1      == [Access(con, row * Cols + col) EXCEPT !.buffer =
                                Store(@, row * Cols + col, char_with_attr)]
                 new_col == col + 1
             IN  IF new_col >= Cols THEN newline(c1)
                 ELSE [c1 EXCEPT !.col = new_col]

\* mutant: the characters are taken from the last to the first
write_str_reversed(con, s) ==
    LET Body(c, k) == write_char(c, s[Len(s) + 1 - k])
    IN  For(Body, con, 1, Len(s) + 1)

\* TextDisplay::write_str: for c in s.chars() { self.write_char(c) }
write_str(con, s) ==
    LET Body(c, k) == write_char(c, s[k])
    IN  For(Body, con, 1, Len(s) + 1)

-----------------------------------------------------------------------------
(* Events and the dispatcher.  The dispatcher owns the console; the running *)
(* flag is global.  A system state is [console, running].                   *)

EventTypes == {"SystemInit", "KeyPress", "Timer", "SystemShutdown"}

\* "GrapeOS Kernel Initialized\n\r"
StrBanner1 ==
    <<71, 114, 97, 112, 101, 79, 83, 32, 75, 101, 114, 110, 101, 108, 32, 73,
      110, 105, 116, 105, 97, 108, 105, 122, 101, 100, 10, 13>>
\* "---------------------------\n\r"
StrBanner2 ==
    <<45, 45, 45, 45, 45, 45, 45, 45, 45, 45, 45, 45, 45, 45, 45, 45, 45, 45,
      45, 45, 45, 45, 45, 45, 45, 45, 45, 10, 13>>
\* "Welcome to the Reactive Operating System!\n\r"
StrBanner3 ==
    <<87, 101, 108, 99, 111, 109, 101, 32, 116, 111, 32, 116, 104, 101, 32, 82,
      101, 97, 99, 116, 105, 118, 101, 32, 79, 112, 101, 114, 97, 116, 105,
      110, 103, 32, 83, 121, 115, 116, 101, 109, 33, 10, 13>>
\* "Key press detected\n\r"
StrKeyPress ==
    <<75, 101, 121, 32, 112, 114, 101, 115, 115, 32, 100, 101, 116, 101, 99,
      116, 101, 100, 10, 13>>
\* "."
StrTimer == <<46>>
\* "\n\rShutting down...\n\r"
StrShutdown ==
    <<10, 13, 83, 104, 117, 116, 116, 105, 110, 103, 32, 100, 111, 119, 110,
      46, 46, 46, 10, 13>>

\* EventDispatcher::create_event
create_event(event_type, priority) ==
    [event_type |-> event_type, priority |-> priority, timestamp |-> 0]

\* mutant: the store of `true` is missing
handle_system_init_nostore(sys, event) ==
    LET c0 == clear(sys.console)
        c1 == write_str(c0, StrBanner1)
        c2 == write_str(c1, StrBanner2)
        c3 == write_str(c2, StrBanner3)
    IN  [console |-> c3, running |-> sys.running]

\* mutant: the console is not cleared before the banner
handle_system_init_noclear(sys, event) ==
    LET c1 == write_str(sys.console, StrBanner1)
        c2 == write_str(c1, StrBanner2)
        c3 == write_str(c2, StrBanner3)
    IN  [console |-> c3, running |-> TRUE]

\* EventDispatcher::handle_system_init
handle_system_init(sys, event) ==
    LET c0 == clear(sys.console)
        c1 == write_str(c0, StrBanner1)
        c2 == write_str(c1, StrBanner2)
        c3 == write_str(c2, StrBanner3)
    IN  [console |-> c3, running |-> TRUE]

\* mutant: the key press handler stores `false` in the running flag
handle_key_press_stops(sys, event) ==
    [console |-> write_str(sys.console, StrKeyPress), running |-> FALSE]

\* mutant: the notice starts on a line of its own ("\n" first)
handle_key_press_ownline(sys, event) ==
    [sys EXCEPT !.console = write_str(sys.console, <<LF>> \o StrKeyPress)]

\* EventDispatcher::handle_key_press
handle_key_press(sys, event) ==
    [sys EXCEPT !.console = write_str(sys.console, StrKeyPress)]

\* mutant: the marker is followed by a newline (".\n")
handle_timer_newline(sys, event) ==
    [sys EXCEPT !.console = write_str(sys.console, StrTimer \o <<LF>>)]

\* EventDispatcher::handle_timer
handle_timer(sys, event) ==
    [sys EXCEPT !.console = write_str(sys.console, StrTimer)]

\* mutant: the store of `false` is missing
handle_system_shutdown_nostore(sys, event) ==
    [sys EXCEPT !.console = write_str(sys.console, StrShutdown)]

\* EventDispatcher::handle_system_shutdown
handle_system_shutdown(sys, event) ==
    [console |-> write_str(sys.console, StrShutdown), running |-> FALSE]

\* mutant: events of a priority below 8 are not handled
dispatch_event_by_priority(sys, event) ==
    IF event.priority < 8 THEN sys
    ELSE CASE event.event_type = "SystemInit"     -> handle_system_init(sys, event)
           [] event.event_type = "KeyPress"       -> handle_key_press(sys, event)
           [] event.event_type = "Timer"          -> handle_timer(sys, event)
           [] event.event_type = "SystemShutdown" -> handle_system_shutdown(sys, event)

\* EventDispatcher::dispatch_event
dispatch_event(sys, event) ==
    CASE event.event_type = "SystemInit"     -> handle_system_init(sys, event)
      [] event.event_type = "KeyPress"       -> handle_key_press(sys, event)
      [] event.event_type = "Timer"          -> handle_timer(sys, event)
      [] event.event_type = "SystemShutdown" -> handle_system_shutdown(sys, event)

-----------------------------------------------------------------------------
(* The state after construction.  VgaConsole::new() points the console at  *)
(* the VGA text memory without writing it, so the buffer starts with what  *)
(* the firmware and the bootloader left there: any 16-bit values.          *)

MemBlank(i) == BlankCell
MemZero(i) == 0
MemOnes(i) == 65535
MemLines(i) == Attr + 48 + (i \div Cols)
MemIndex(i) == i

BootMemories ==
    { Memory(MemBlank),     \* already blank
      Memory(MemZero),      \* every cell 0x0000
      Memory(MemOnes),      \* every cell 0xFFFF
      Memory(MemLines),     \* line y filled with the character '0' + y
      Memory(MemIndex) }    \* cell i holds i: every cell different

NoEvent == [event_type |-> "None", priority |-> 0, timestamp |-> 0]

\* the record of the last operation: its kind and argument, and the cursor
\* and flag it started from
OpRecord(kind, c, s, ev) ==
    [kind |-> kind, c |-> c, s |-> s, ev |-> ev,
     row0 |-> console.row, col0 |-> console.col, running0 |-> SYSTEM_RUNNING]

\* the probes of the console are set back before each operation: nl_calls
\* counts the calls of newline the operation makes, scrolls those that
\* scroll, idx_lo and idx_hi bound the buffer indices it dereferences
Probe(con) ==
    [con EXCEPT !.nl_calls = 0, !.scrolls = 0,
                !.idx_lo = Cols * Rows, !.idx_hi = -1]

ConsoleInit ==
    /\ console \in { VgaConsole_new(m) : m \in BootMemories }
    /\ SYSTEM_RUNNING = FALSE

\* the history variables and kernel_main at its first statement
HistoryInit ==
    /\ op = [kind |-> "new", c |-> 0, s |-> <<>>, ev |-> NoEvent,
             row0 |-> 0, col0 |-> 0, running0 |-> FALSE]
    /\ steps = 0
    /\ pc = "init"
    /\ timer_i = 0
    /\ spin = 0
    /\ dispatched = <<>>
    /\ halt_entries = 0
    /\ flag_changes = 0

\* BootInfo::new (uefi_bootloader): the memory map fields as given, the
\* framebuffer fields zero
BootInfo_new(memory_map_addr, memory_map_size, memory_map_entry_size) ==
    [memory_map_addr       |-> memory_map_addr,
     memory_map_size       |-> memory_map_size,
     memory_map_entry_size |-> memory_map_entry_size,
     framebuffer_addr      |-> 0,
     framebuffer_width     |-> 0,
     framebuffer_height    |-> 0,
     framebuffer_stride    |-> 0]

\* the byte addresses of the 32-bit cells of physical memory
FbAddresses == { 4 * k : k \in 0 .. (FbMemCells - 1) }

\* physical memory before _start runs: cell a holds a (no cell holds
\* COLOR_BLUE)
FbMemory0 == [a \in FbAddresses |-> a]

\* _start at its first statement, handed `bi`
FbInitWith(bi) ==
    /\ boot_info = bi
    /\ fb_mem = FbMemory0
    /\ fb_pc = "start"
    /\ fb_i = 0
    /\ fb_written = {}

Init ==
    /\ ConsoleInit
    /\ HistoryInit
    /\ FbInitWith(BootInfo_new(0, 0, 0))

-----------------------------------------------------------------------------
(* Specification Spec: any sequence of console operations and dispatches   *)

\* the characters handed to write_char: '\n', '\r', 'A', U+00E9, U+1F347
Chars == {LF, CR, 65, 233, 127815}

\* the strings handed to write_str
Strs ==
    { <<>>,
      <<65, 66, LF>>,                      \* "AB\n"
      Rep(66, 79) \o <<LF>>,               \* 79 characters and '\n'
      Rep(65, 79),                         \* up to the last column
      Rep(65, 80) \o <<66>>,               \* 81 characters, no newline
      Rep(LF, 24),                         \* down to the last row
      <<127815, LF>>,                      \* U+1F347 and '\n'
      Rep(LF, 24) \o Rep(65, 79) }         \* down to the last cell

\* the events handed to dispatch_event
Events == [event_type : EventTypes, priority : {5, 10}, timestamp : {0}]

Clear ==
    /\ steps < MaxSteps
    /\ console' = clear(Probe(console))
    /\ op' = OpRecord("clear", 0, <<>>, NoEvent)
    /\ steps' = steps + 1
    /\ UNCHANGED <<SYSTEM_RUNNING, MainVars, FbVars>>

WriteChar(c) ==
    /\ steps < MaxSteps
    /\ console' = write_char(Probe(console), c)
    /\ op' = OpRecord("write_char", c, <<>>, NoEvent)
    /\ steps' = steps + 1
    /\ UNCHANGED <<SYSTEM_RUNNING, MainVars, FbVars>>

WriteStr(s) ==
    /\ steps < MaxSteps
    /\ console' = write_str(Probe(console), s)
    /\ op' = OpRecord("write_str", 0, s, NoEvent)
    /\ steps' = steps + 1
    /\ UNCHANGED <<SYSTEM_RUNNING, MainVars, FbVars>>

Dispatch(e) ==
    /\ steps < MaxSteps
    /\ LET sys == dispatch_event([console |-> Probe(console),
                                  running |-> SYSTEM_RUNNING], e)
       IN  /\ console' = sys.console
           /\ SYSTEM_RUNNING' = sys.running
    /\ op' = OpRecord("dispatch", 0, <<>>, e)
    /\ steps' = steps + 1
    /\ UNCHANGED <<MainVars, FbVars>>

Next ==
    \/ Clear
    \/ \E c \in Chars : WriteChar(c)
    \/ \E s \in Strs : WriteStr(s)
    \/ \E e \in Events : Dispatch(e)

Spec == Init /\ [][Next]_vars

-----------------------------------------------------------------------------
(* Specification MainSpec: the scripted run of kernel_main.  pc names the  *)
(* statement kernel_main executes next.                                    *)

\* `dispatcher.dispatch_event(dispatcher.create_event(event_type, priority))`
\* at kernel_main's position `at`, continuing at `next`
KernelDispatch(at, event_type, priority, next) ==
    /\ pc = at
    /\ LET e   == create_event(event_type, priority)
           sys == dispatch_event([console |-> Probe(console),
                                  running |-> SYSTEM_RUNNING], e)
       IN  /\ console' = sys.console
           /\ SYSTEM_RUNNING' = sys.running
           /\ dispatched' = Append(dispatched, e.event_type)
           /\ flag_changes' = IF sys.running # SYSTEM_RUNNING
                              THEN flag_changes + 1 ELSE flag_changes
    /\ pc' = next
    /\ UNCHANGED <<op, steps, halt_entries, FbVars>>

\* init_event: create_event(SystemInit, 10), dispatched before the loop
KernelInit ==
    /\ KernelDispatch("init", "SystemInit", 10, "timer")
    /\ timer_i' = 0
    /\ UNCHANGED spin

\* the body of `for _i in 0..10`: create_event(Timer, 5), dispatched; then
\* the delay loop starts
KernelTimer ==
    /\ KernelDispatch("timer", "Timer", 5, "delay")
    /\ spin' = 0
    /\ UNCHANGED timer_i

\* one iteration of the delay loop: core::hint::spin_loop()
KernelSpin ==
    /\ pc = "delay"
    /\ spin < DelaySpins
    /\ spin' = spin + 1
    /\ UNCHANGED <<console, SYSTEM_RUNNING, op, steps, pc, timer_i,
                   dispatched, halt_entries, flag_changes, FbVars>>

\* mutant: the timer loop runs once more (`for _i in 0..=10`)
KernelDelayDone_inclusive ==
    /\ pc = "delay"
    /\ spin >= DelaySpins
    /\ timer_i' = timer_i + 1
    /\ pc' = IF timer_i + 1 <= TimerEvents THEN "timer" ELSE "key"
    /\ UNCHANGED <<console, SYSTEM_RUNNING, op, steps, spin, dispatched,
                   halt_entries, flag_changes, FbVars>>

\* the delay loop ends, and the outer loop goes to its next iteration or,
\* after the tenth, ends
KernelDelayDone ==
    /\ pc = "delay"
    /\ spin >= DelaySpins
    /\ timer_i' = timer_i + 1
    /\ pc' = IF timer_i + 1 < TimerEvents THEN "timer" ELSE "key"
    /\ UNCHANGED <<console, SYSTEM_RUNNING, op, steps, spin, dispatched,
                   halt_entries, flag_changes, FbVars>>

\* key_event: create_event(KeyPress, 8), dispatched
KernelKeyPress ==
    /\ KernelDispatch("key", "KeyPress", 8, "shutdown")
    /\ UNCHANGED <<timer_i, spin>>

\* shutdown_event: create_event(SystemShutdown, 10), dispatched
KernelShutdown ==
    /\ KernelDispatch("shutdown", "SystemShutdown", 10, "loop")
    /\ UNCHANGED <<timer_i, spin>>

\* control reaches `loop { hlt }`
KernelEnterHalt ==
    /\ pc = "loop"
    /\ pc' = "hlt"
    /\ halt_entries' = halt_entries + 1
    /\ UNCHANGED <<console, SYSTEM_RUNNING, op, steps, timer_i, spin,
                   dispatched, flag_changes, FbVars>>

\* one iteration of `loop { hlt }`: the CPU halts, wakes and halts again
KernelHlt ==
    /\ pc = "hlt"
    /\ pc' = "hlt"
    /\ UNCHANGED <<console, SYSTEM_RUNNING, op, steps, timer_i, spin,
                   dispatched, halt_entries, flag_changes, FbVars>>

MainNext ==
    \/ KernelInit
    \/ KernelTimer
    \/ KernelSpin
    \/ KernelDelayDone
    \/ KernelKeyPress
    \/ KernelShutdown
    \/ KernelEnterHalt
    \/ KernelHlt

MainSpec == Init /\ [][MainNext]_vars

\* kernel_main runs on the one CPU with interrupts unused: every statement
\* that can execute does, and every loop before `loop { hlt }` is finite.
MainLiveSpec == Init /\ [][MainNext]_vars /\ WF_vars(MainNext)

-----------------------------------------------------------------------------
(* Specification FbSpec: kernel/_start, the framebuffer fill.  The BootInfo *)
(* comes from the bootloader: either as BootInfo::new left it, or with the  *)
(* framebuffer fields set.  As _start trusts its caller, a non-zero address *)
(* comes with a region of width * height cells that lies in memory.         *)

\* the BootInfo records the bootloader hands over
BootInfos ==
    { [BootInfo_new(4096, 960, 48) EXCEPT !.framebuffer_addr   = a,
                                          !.framebuffer_width  = w,
                                          !.framebuffer_height = h,
                                          !.framebuffer_stride = s] :
        a \in {0, 4, 8}, w \in 0 .. MaxDim, h \in 0 .. MaxDim,
        s \in 0 .. (MaxDim + 1) }

\* the region [address, address + width * height * 4) is memory
FbRegionValid(bi) ==
    bi.framebuffer_addr + 4 * (bi.framebuffer_width * bi.framebuffer_height)
        <= 4 * FbMemCells

FbInit ==
    /\ console = VgaConsole_new(Memory(MemBlank))
    /\ SYSTEM_RUNNING = FALSE
    /\ HistoryInit
    /\ \E bi \in BootInfos :
          /\ bi.framebuffer_addr # 0 => FbRegionValid(bi)
          /\ FbInitWith(bi)

\* mutant: the length of the slice taken from the stride
fb_len_stride(bi) == bi.framebuffer_stride * bi.framebuffer_height

\* fb.len(): the length given to core::slice::from_raw_parts_mut
fb_len(bi) == bi.framebuffer_width * bi.framebuffer_height

\* mutant: the address is not tested
FbStart_nocheck ==
    /\ fb_pc = "start"
    /\ fb_pc' = "fill"
    /\ fb_i' = 0
    /\ UNCHANGED <<boot_info, fb_mem, fb_written, ZkernelVars>>

\* `if boot_info.framebuffer_addr != 0 { let fb = ...; for i in 0.. }`,
\* and past the `if` to the halt loop when the address is 0
FbStart ==
    /\ fb_pc = "start"
    /\ IF boot_info.framebuffer_addr # 0
       THEN fb_pc' = "fill" /\ fb_i' = 0
       ELSE fb_pc' = "hlt" /\ UNCHANGED fb_i
    /\ UNCHANGED <<boot_info, fb_mem, fb_written, ZkernelVars>>

\* one iteration of `for i in 0..fb.len() { fb[i] = COLOR_BLUE }`;
\* fb[i] is the u32 at byte address framebuffer_addr + 4 * i
FbFill ==
    /\ fb_pc = "fill"
    /\ fb_i < fb_len(boot_info)
    /\ LET a == boot_info.framebuffer_addr + 4 * fb_i
       IN  /\ fb_mem' = [fb_mem EXCEPT ![a] = COLOR_BLUE]
           /\ fb_written' = fb_written \cup {a}
    /\ fb_i' = fb_i + 1
    /\ UNCHANGED <<boot_info, fb_pc, ZkernelVars>>

\* the loop ends; control reaches `loop { hlt }`
FbFillDone ==
    /\ fb_pc = "fill"
    /\ fb_i >= fb_len(boot_info)
    /\ fb_pc' = "hlt"
    /\ UNCHANGED <<boot_info, fb_mem, fb_i, fb_written, ZkernelVars>>

\* one iteration of `loop { hlt }`
FbHlt ==
    /\ fb_pc = "hlt"
    /\ fb_pc' = "hlt"
    /\ UNCHANGED <<boot_info, fb_mem, fb_i, fb_written, ZkernelVars>>

FbNext ==
    \/ FbStart
    \/ FbFill
    \/ FbFillDone
    \/ FbHlt

FbSpec == FbInit /\ [][FbNext]_vars

\* _start runs on the one CPU: every statement that can execute does
FbLiveSpec == FbInit /\ [][FbNext]_vars /\ WF_vars(FbNext)

-----------------------------------------------------------------------------
(* The claims *)

\* the cell that shows character code c with the attribute 0x07:
\* low byte c, high byte 0x07
AttrCell(c) == 7 * 256 + c

\* the blank screen
BlankMemory == Memory(MemBlank)

\* s holds neither '\n' nor '\r'
Ordinary(s) == \A k \in 1 .. Len(s) : s[k] # LF /\ s[k] # CR

\* C1: in every state reachable from VgaConsole::new() by clear, write_char
\* and write_str (and the dispatcher's handlers, which only call these),
\* the cursor satisfies 0 <= row <= 24 and 0 <= col <= 79.
C1_CursorInBounds ==
    /\ console.row \in 0 .. 24
    /\ console.col \in 0 .. 79

\* a character written in the last cell of the screen, (24, 79), has been
\* wrapped and the cursor is at (24, 0)
C1_Witness ==
    /\ op.kind = "write_char"
    /\ op.row0 = 24 /\ op.col0 = 79
    /\ op.c # LF /\ op.c # CR
    /\ console.row = 24 /\ console.col = 0

\* the buffer on which the 'next row' action of a write_char(c) step works:
\* a '\n' finds the buffer as it is, a wrap finds it with c written at the
\* cursor
C2_Before(c) ==
    IF c = LF THEN console.buffer
    ELSE Store(console.buffer, console.row * Cols + console.col,
               BitOr16(Attr, AsU16(c)))

\* C2: the 'next row' action (a '\n', or a character written at column 79)
\* taken on row 24 leaves in every row r of 0..23 the cells row r+1 held,
\* leaves row 24 blank and the cursor row at 24; taken on a row r < 24 it
\* shifts no cell and makes the cursor row r+1.
C2_NextRowAction ==
    [][ ( /\ op'.kind = "write_char"
          /\ steps' = steps + 1
          /\ \/ op'.c = LF
             \/ (op'.c # CR /\ console.col = 79) )
        => IF console.row = 24
           THEN /\ \A r \in 0 .. 23 :
                     console'.buffer[r] = C2_Before(op'.c)[r + 1]
                /\ \A x \in 0 .. 79 : console'.buffer[24][x] = BlankCell
                /\ console'.row = 24
           ELSE /\ console'.buffer = C2_Before(op'.c)
                /\ console'.row = console.row + 1 ]_vars

\* a '\n' on row 24 of the screen whose cell i held i: the line of cells
\* 80..159 is now line 0, the line 1920..1999 is line 23, line 24 is blank
C2_Witness ==
    /\ op.kind = "write_char" /\ op.c = LF
    /\ op.row0 = 24
    /\ console.row = 24
    /\ console.buffer[0][0] = 80
    /\ console.buffer[23][79] = 1999
    /\ console.buffer[24][0] = BlankCell

\* C3, as claimed: from column 0 of a row r, write_str of 81 characters,
\* none '\n' or '\r', takes the 'next row' action once and writes the 81st
\* character at cell (r+1, 0).
C3_Original ==
    [][ ( /\ op'.kind = "write_str"
          /\ steps' = steps + 1
          /\ Len(op'.s) = 81
          /\ Ordinary(op'.s)
          /\ console.col = 0 )
        => /\ console'.nl_calls = 1
           /\ console'.row = console.row + 1
           /\ console'.col = 1
           /\ console'.buffer[console.row + 1][0]
                 = BitOr16(Attr, AsU16(op'.s[81])) ]_vars

\* C3, amended: ... once, and writes the 81st character at cell (r+1, 0)
\* when r < 24; when r = 24 the action scrolls the screen and the 81st
\* character is written at cell (24, 0), the first 80 being on line 23.
C3_WrapOnce ==
    [][ ( /\ op'.kind = "write_str"
          /\ steps' = steps + 1
          /\ Len(op'.s) = 81
          /\ Ordinary(op'.s)
          /\ console.col = 0 )
        => LET r      == console.row
               target == IF r < 24 THEN r + 1 ELSE 24
               first  == IF r < 24 THEN r ELSE 23
           IN  /\ console'.nl_calls = 1
               /\ console'.row = target
               /\ console'.col = 1
               /\ console'.buffer[target][0]
                     = BitOr16(Attr, AsU16(op'.s[81]))
               /\ \A x \in 0 .. 79 :
                     console'.buffer[first][x]
                        = BitOr16(Attr, AsU16(op'.s[x + 1])) ]_vars

\* 81 characters written from (24, 0): 80 'A' now on line 23, 'B' at (24, 0)
C3_Witness ==
    /\ op.kind = "write_str" /\ Len(op.s) = 81 /\ Ordinary(op.s)
    /\ op.row0 = 24 /\ op.col0 = 0
    /\ console.row = 24 /\ console.col = 1
    /\ console.nl_calls = 1
    /\ console.buffer[24][0] = AttrCell(66)
    /\ console.buffer[23][79] = AttrCell(65)

\* C4: clear() leaves all 2000 cells equal to the blank cell 0x0720 and the
\* cursor at (0, 0), whatever the cursor and the buffer were.
C4_ClearBlanksAll ==
    op.kind = "clear"
        => /\ DOMAIN console.buffer = 0 .. 24
           /\ \A y \in 0 .. 24 :
                /\ DOMAIN console.buffer[y] = 0 .. 79
                /\ \A x \in 0 .. 79 : console.buffer[y][x] = 1824
           /\ console.row = 0
           /\ console.col = 0

\* clear() called with the cursor at (24, 79), on a buffer that was written
C4_Witness ==
    /\ op.kind = "clear"
    /\ op.row0 = 24 /\ op.col0 = 79
    /\ console.buffer = BlankMemory
    /\ console.row = 0 /\ console.col = 0

\* C5: on a freshly cleared console, write_str of k ordinary characters
\* (1 <= k < 80) followed by '\n' leaves the cursor at (1, 0), cell (0, i)
\* holding the i-th character with attribute 0x07 for every i < k, and
\* every other cell blank.
C5_LineOnClearedConsole ==
    [][ ( /\ op'.kind = "write_str"
          /\ steps' = steps + 1
          /\ op.kind = "clear"
          /\ console.buffer = BlankMemory
          /\ console.row = 0 /\ console.col = 0
          /\ Len(op'.s) \in 2 .. 80
          /\ op'.s[Len(op'.s)] = LF
          /\ Ordinary(SubSeq(op'.s, 1, Len(op'.s) - 1)) )
        => LET k == Len(op'.s) - 1
           IN  /\ console'.row = 1
               /\ console'.col = 0
               /\ \A i \in 0 .. (k - 1) :
                     console'.buffer[0][i] = AttrCell(op'.s[i + 1])
               /\ \A y \in 0 .. 24, x \in 0 .. 79 :
                     (y # 0 \/ x >= k) => console'.buffer[y][x] = BlankCell ]_vars

\* C6: dispatch_event of a SystemInit event leaves SYSTEM_RUNNING true and
\* of a SystemShutdown event leaves it false, whatever it was before.
C6_InitAndShutdownSetFlag ==
    /\ (op.kind = "dispatch" /\ op.ev.event_type = "SystemInit")
          => SYSTEM_RUNNING = TRUE
    /\ (op.kind = "dispatch" /\ op.ev.event_type = "SystemShutdown")
          => SYSTEM_RUNNING = FALSE

\* a SystemShutdown dispatched while the flag was true
C6_Witness ==
    /\ op.kind = "dispatch"
    /\ op.ev.event_type = "SystemShutdown"
    /\ op.running0 = TRUE
    /\ SYSTEM_RUNNING = FALSE

\* C7: in the run of kernel_main the flag is false until Init is handled,
\* true from then through the ten Timer dispatches and the KeyPress
\* dispatch, false from the Shutdown dispatch on; it changes exactly twice.
C7_FlagLifecycle ==
    /\ pc = "init" => (SYSTEM_RUNNING = FALSE /\ flag_changes = 0)
    /\ pc \in {"timer", "delay", "key", "shutdown"}
          => (SYSTEM_RUNNING = TRUE /\ flag_changes = 1)
    /\ pc \in {"loop", "hlt"} => (SYSTEM_RUNNING = FALSE /\ flag_changes = 2)
    /\ pc \in {"init", "timer", "delay", "key", "shutdown", "loop", "hlt"}

\* the run has reached the halt loop after both changes of the flag
C7_Witness ==
    /\ pc = "hlt"
    /\ dispatched[1] = "SystemInit"
    /\ dispatched[Len(dispatched)] = "SystemShutdown"
    /\ flag_changes = 2
    /\ SYSTEM_RUNNING = FALSE

\* Init, Timer x 10, KeyPress, Shutdown
ScriptedEvents ==
    <<"SystemInit">> \o [k \in 1 .. 10 |-> "Timer"]
        \o <<"KeyPress", "SystemShutdown">>

\* C8: kernel_main dispatches exactly Init, Timer x 10, KeyPress, Shutdown
\* in this order (13 dispatches), then eventually enters the halt loop,
\* enters it once and never leaves it; once halted, no console cell and no
\* running-flag write occurs.
C8_ScriptedRunHalts ==
    /\ [](/\ Len(dispatched) <= 13
          /\ dispatched = SubSeq(ScriptedEvents, 1, Len(dispatched)))
    /\ [](pc \in {"loop", "hlt"} => dispatched = ScriptedEvents)
    /\ <>(pc = "hlt")
    /\ [](halt_entries = IF pc = "hlt" THEN 1 ELSE 0)
    /\ [][pc = "hlt" => /\ pc' = "hlt"
                        /\ console' = console
                        /\ SYSTEM_RUNNING' = SYSTEM_RUNNING
                        /\ dispatched' = dispatched]_vars

\* the halt loop entered after the 13 dispatches
C8_Witness ==
    /\ pc = "hlt"
    /\ halt_entries = 1
    /\ Len(dispatched) = 13
    /\ dispatched = ScriptedEvents

\* the cells of the framebuffer region: width * height consecutive 32-bit
\* cells from framebuffer_addr
FbRegion ==
    { boot_info.framebuffer_addr + 4 * k :
        k \in 0 .. (boot_info.framebuffer_width * boot_info.framebuffer_height - 1) }

\* C9: with framebuffer_addr = A # 0, width w and height h, _start writes
\* COLOR_BLUE to exactly the w * h consecutive 32-bit cells from A and to no
\* other cell, whatever framebuffer_stride is.
C9_FillsExactlyWidthTimesHeight ==
    boot_info.framebuffer_addr # 0
        => /\ fb_written \subseteq FbRegion
           /\ \A a \in FbAddresses :
                 fb_mem[a] = IF a \in fb_written THEN 16711680 ELSE FbMemory0[a]
           /\ fb_pc = "hlt" => /\ fb_written = FbRegion
                               /\ Cardinality(fb_written)
                                     = boot_info.framebuffer_width
                                          * boot_info.framebuffer_height

\* a 2 x 2 framebuffer at address 8 with stride 3, filled: the 4 cells
\* 8, 12, 16, 20 are blue, the cells before and after are as they were
C9_Witness ==
    /\ fb_pc = "hlt"
    /\ boot_info.framebuffer_addr = 8
    /\ boot_info.framebuffer_width = 2
    /\ boot_info.framebuffer_height = 2
    /\ boot_info.framebuffer_stride = 3
    /\ fb_written = {8, 12, 16, 20}
    /\ fb_mem[4] = 4 /\ fb_mem[24] = 24
    /\ fb_mem[8] = COLOR_BLUE /\ fb_mem[20] = COLOR_BLUE

\* C10: with framebuffer_addr = 0, whatever width, height and stride hold,
\* _start writes no memory and reaches the halt loop; with a non-zero
\* address it reaches the halt loop after the fill.
C10_NoAddressNoWrite ==
    /\ [](boot_info.framebuffer_addr = 0
            => (fb_written = {} /\ fb_mem = FbMemory0))
    /\ <>(fb_pc = "hlt")
    /\ [](fb_pc = "hlt" /\ boot_info.framebuffer_addr # 0
            => fb_i = boot_info.framebuffer_width * boot_info.framebuffer_height)
    /\ [][fb_pc = "hlt" => fb_pc' = "hlt"]_vars

\* the halt loop reached with address 0 and a 3 x 3 geometry: nothing
\* written
C10_Witness ==
    /\ fb_pc = "hlt"
    /\ boot_info.framebuffer_addr = 0
    /\ boot_info.framebuffer_width = 3
    /\ boot_info.framebuffer_height = 3
    /\ fb_written = {}
    /\ fb_mem = FbMemory0

\* the cell in which a character written from the cursor (row, col) is found
\* after the write_char step: its own cell, or the cell one line up when the
\* write at (24, 79) wrapped and scrolled the screen
C11_CellAfter(buf, row, col) ==
    IF row = 24 /\ col = 79 THEN buf[23][79] ELSE buf[row][col]

\* C11: for every character c other than '\n' and '\r', write_char(c)
\* stores in the cursor cell a 16-bit value whose high byte is the attribute
\* 0x07 and whose low byte is the character code, for character codes above
\* 0xFF as well.
C11_CellHasAttribute ==
    [][ ( /\ op'.kind = "write_char"
          /\ steps' = steps + 1
          /\ op'.c # LF /\ op'.c # CR )
        => LET cell == C11_CellAfter(console'.buffer, console.row, console.col)
           IN  /\ cell \in 0 .. 65535
               /\ cell \div 256 = 7
               /\ cell % 256 = op'.c ]_vars

\* C12: the running flag has no writer other than the Init and Shutdown
\* handlers: a Timer or KeyPress dispatch, and every direct clear,
\* write_char and write_str, leaves SYSTEM_RUNNING as it was.
C12_FlagFrame ==
    ( \/ op.kind \in {"clear", "write_char", "write_str"}
      \/ (op.kind = "dispatch" /\ op.ev.event_type \in {"Timer", "KeyPress"}) )
        => SYSTEM_RUNNING = op.running0

\* a KeyPress dispatched while the flag was true: it is still true
C12_Witness ==
    /\ op.kind = "dispatch"
    /\ op.ev.event_type = "KeyPress"
    /\ op.running0 = TRUE
    /\ SYSTEM_RUNNING = TRUE

\* events of the kind of e that differ from e in the priority, in the
\* timestamp, or in both
C13_SameKind(e) ==
    { [e EXCEPT !.priority = 15 - e.priority],
      [e EXCEPT !.timestamp = e.timestamp + 7],
      [e EXCEPT !.priority = 255, !.timestamp = e.timestamp + 7] }

\* the handler of an event kind
C13_Handler(kind, sys, e) ==
    CASE kind = "SystemInit"     -> handle_system_init(sys, e)
      [] kind = "KeyPress"       -> handle_key_press(sys, e)
      [] kind = "Timer"          -> handle_timer(sys, e)
      [] kind = "SystemShutdown" -> handle_system_shutdown(sys, e)

\* C13: dispatch_event runs exactly one handler, chosen by event_type alone:
\* every dispatch step, whatever was dispatched before it and with whatever
\* priority, leaves the state that the handler of its kind makes of the
\* state it started from, and an event of the same kind with another
\* priority and/or timestamp dispatched from that state gives the same
\* buffer, cursor and flag.
C13_KindAloneDecides ==
    [][ ( /\ op'.kind = "dispatch"
          /\ steps' = steps + 1 )
        => LET sys   == [console |-> Probe(console), running |-> SYSTEM_RUNNING]
               after == [console |-> console', running |-> SYSTEM_RUNNING']
           IN  /\ after = C13_Handler(op'.ev.event_type, sys, op'.ev)
               /\ \A e2 \in C13_SameKind(op'.ev) :
                     dispatch_event(sys, e2) = after ]_vars

\* a Shutdown of priority 5 dispatched after an Init: handled, and handled
\* second
C13_Witness ==
    /\ op.kind = "dispatch"
    /\ op.ev.event_type = "SystemShutdown"
    /\ op.ev.priority = 5
    /\ op.running0 = TRUE
    /\ SYSTEM_RUNNING = FALSE
    /\ console.row = 5 /\ console.col = 0

\* C14: write_char('\r') sets the column to 0 and changes nothing else: the
\* row and all 2000 cells are as they were, from any cursor position, row 24
\* included; a '\r' right after a '\n' changes nothing at all.
C14_CarriageReturn ==
    [][ ( /\ op'.kind = "write_char"
          /\ steps' = steps + 1
          /\ op'.c = CR )
        => /\ console'.col = 0
           /\ console'.row = console.row
           /\ console'.buffer = console.buffer
           /\ console'.nl_calls = 0
           /\ (op.kind = "write_char" /\ op.c = LF)
                 => (console'.col = console.col /\ console'.row = console.row) ]_vars

\* a '\r' written with the cursor at (24, 79): the cursor is at (24, 0), the
\* line of 'A' written before it is still on row 24
C14_Witness ==
    /\ op.kind = "write_char" /\ op.c = CR
    /\ op.row0 = 24 /\ op.col0 = 79
    /\ console.row = 24 /\ console.col = 0
    /\ console.buffer[24][0] = AttrCell(65)
    /\ console.buffer[24][78] = AttrCell(65)

\* C15: a Timer dispatch with the cursor at (r, c), c < 79, changes exactly
\* the cell (r, c), to '.' with attribute 0x07, and moves the cursor to
\* (r, c+1) without the 'next row' action; with c = 79 it takes the 'next
\* row' action.
C15_TimerWritesOneCell ==
    [][ ( /\ op'.kind = "dispatch"
          /\ steps' = steps + 1
          /\ op'.ev.event_type = "Timer" )
        => IF console.col < 79
           THEN /\ console'.buffer
                      = [console.buffer EXCEPT ![console.row][console.col] = 7 * 256 + 46]
                /\ console'.row = console.row
                /\ console'.col = console.col + 1
                /\ console'.nl_calls = 0
           ELSE /\ console'.nl_calls = 1
                /\ console'.col = 0 ]_vars

\* a Timer dispatched with the cursor at (24, 0): '.' in that cell, the
\* cursor at (24, 1)
C15_Witness ==
    /\ op.kind = "dispatch"
    /\ op.ev.event_type = "Timer"
    /\ op.row0 = 24 /\ op.col0 = 0
    /\ console.row = 24 /\ console.col = 1
    /\ console.buffer[24][0] = AttrCell(46)
    /\ console.nl_calls = 0

\* the text of a banner line: the string without its trailing "\n\r"
C16_Text(s) == SubSeq(s, 1, Len(s) - 2)

\* line y of the screen after Init
C16_Line(y) ==
    CASE y = 0 -> C16_Text(StrBanner1)
      [] y = 1 -> C16_Text(StrBanner2)
      [] y = 2 -> C16_Text(StrBanner3)
      [] OTHER -> <<>>

\* the screen after Init: the three banner lines from column 0 of rows 0, 1
\* and 2, every other cell blank
C16_Screen ==
    [y \in 0 .. 24 |->
       [x \in 0 .. 79 |->
          IF x < Len(C16_Line(y)) THEN AttrCell(C16_Line(y)[x + 1])
          ELSE BlankCell]]

\* C16: after an Init dispatch, from any buffer content and cursor position,
\* rows 0, 1, 2 hold the three banner lines from column 0, every other cell
\* is blank, the cursor is at (3, 0) and the running flag is true.
C16_InitFromAnyState ==
    (op.kind = "dispatch" /\ op.ev.event_type = "SystemInit")
        => /\ console.buffer = C16_Screen
           /\ console.row = 3
           /\ console.col = 0
           /\ SYSTEM_RUNNING = TRUE

\* Init dispatched with the cursor at (24, 79) on a written screen
C16_Witness ==
    /\ op.kind = "dispatch"
    /\ op.ev.event_type = "SystemInit"
    /\ op.row0 = 24 /\ op.col0 = 79
    /\ console.buffer = C16_Screen
    /\ console.buffer[2][40] = AttrCell(33)
    /\ console.row = 3 /\ console.col = 0
    /\ SYSTEM_RUNNING = TRUE

\* the places at which a string is cut in two: after its first two
\* characters, before its last, and after every 27th (a string of up to 3
\* characters is cut at every place)
C17_Cuts(s) ==
    { k \in 0 .. Len(s) : k <= 2 \/ k >= Len(s) - 1 \/ k % 27 = 0 }

\* C17: write_str(s ++ t) leaves the buffer and the cursor that write_str(s)
\* followed by write_str(t) leaves, from any state, and write_str of the
\* empty string changes nothing.
C17_WriteStrConcat ==
    [][ ( /\ op'.kind = "write_str"
          /\ steps' = steps + 1 )
        => /\ \A k \in C17_Cuts(op'.s) :
                LET s == SubSeq(op'.s, 1, k)
                    t == SubSeq(op'.s, k + 1, Len(op'.s))
                    both == write_str(write_str(Probe(console), s), t)
                IN  /\ both.buffer = console'.buffer
                    /\ both.row = console'.row
                    /\ both.col = console'.col
           /\ op'.s = <<>> => /\ console'.buffer = console.buffer
                              /\ console'.row = console.row
                              /\ console'.col = console.col ]_vars

\* the string of 24 '\n' and 79 'A' written from row 24: 24 scrolls, the
\* cursor at (24, 79), the 'A's on row 24
C17_Witness ==
    /\ op.kind = "write_str"
    /\ Len(op.s) = 103
    /\ op.row0 = 24
    /\ console.nl_calls = 24
    /\ console.row = 24 /\ console.col = 79
    /\ console.buffer[24][78] = AttrCell(65)
    /\ console.buffer[23][0] = BlankCell

\* C18: every buffer access made by clear, write_char and newline uses a
\* cell index in 0..1999: in every reachable state the indices dereferenced
\* by the last operation (the write index of write_char, the read and write
\* indices of the scroll, those of the blanking of row 24, those of clear)
\* lie in 0..1999, and so does the index row * 80 + col that the next
\* write_char will use.
C18_IndicesInBuffer ==
    /\ console.idx_lo >= 0
    /\ console.idx_hi <= 1999
    /\ console.row * 80 + console.col \in 0 .. 1999

\* a character written at (24, 79): cell 1999 written, then the scroll,
\* which reads up to cell 1999 and writes from cell 0
C18_Witness ==
    /\ op.kind = "write_char"
    /\ op.c = 233
    /\ op.row0 = 24 /\ op.col0 = 79
    /\ console.scrolls = 1
    /\ console.idx_lo = 0
    /\ console.idx_hi = 1999

\* line y of the screen at the end of the scripted run
C19_Line(y) ==
    CASE y \in 0 .. 2 -> C16_Line(y)
      [] y = 3 -> Rep(46, 10) \o C16_Text(StrKeyPress)
      [] y = 5 -> SubSeq(StrShutdown, 3, Len(StrShutdown) - 2)
      [] OTHER -> <<>>

C19_Screen ==
    [y \in 0 .. 24 |->
       [x \in 0 .. 79 |->
          IF x < Len(C19_Line(y)) THEN AttrCell(C19_Line(y)[x + 1])
          ELSE BlankCell]]

\* C19: the scripted run of kernel_main never scrolls, and at the halt loop
\* the console is in one fixed state: rows 0..2 the banner, row 3 ten '.'
\* in columns 0..9 and 'Key press detected' from column 10, row 4 blank,
\* row 5 'Shutting down...', every other cell blank, the cursor at (6, 0).
C19_FinalConsole ==
    /\ console.scrolls = 0
    /\ pc \in {"loop", "hlt"}
          => /\ console.buffer = C19_Screen
             /\ console.row = 6
             /\ console.col = 0

\* the halt loop reached: the tenth '.' at (3, 9), 'K' at (3, 10), the last
\* '.' of 'Shutting down...' at (5, 15)
C19_Witness ==
    /\ pc = "hlt"
    /\ Len(dispatched) = 13
    /\ console.buffer[3][9] = AttrCell(46)
    /\ console.buffer[3][10] = AttrCell(75)
    /\ console.buffer[3][27] = AttrCell(100)
    /\ console.buffer[4][0] = BlankCell
    /\ console.buffer[5][15] = AttrCell(46)
    /\ console.row = 6 /\ console.col = 0

\* C20: the cursor row never decreases under write_char or write_str, and
\* from 24 it stays 24; a step that lowers the row is a clear() or an Init
\* dispatch (which calls clear()).
C20_RowMonotonic ==
    [][ steps' = steps + 1
        => /\ op'.kind \in {"write_char", "write_str"}
                => /\ console'.row >= console.row
                   /\ console.row = 24 => console'.row = 24
           /\ console'.row < console.row
                => \/ op'.kind = "clear"
                   \/ /\ op'.kind = "dispatch"
                      /\ op'.ev.event_type = "SystemInit" ]_vars

\* "AB\n" written from (24, 79): two scrolls, the row still 24
C20_Witness ==
    /\ op.kind = "write_str"
    /\ op.s = <<65, 66, LF>>
    /\ op.row0 = 24 /\ op.col0 = 79
    /\ console.scrolls = 2
    /\ console.row = 24 /\ console.col = 0

=============================================================================
